---- MODULE Spec2Model ----
(***************************************************************************)
(* Model of the poker trainer's core (src/poker-trainer.tsx): the card     *)
(* model (makeDeck, shuffle), the flop evaluator (evalOnFlop and its       *)
(* helpers), the pot-odds arithmetic and the decision engine.              *)
(*                                                                         *)
(* Suits are written "s", "h", "d", "c" for the source's spade, heart,     *)
(* diamond and club glyphs.  Numbers that are fractions in the source      *)
(* (potOddsPct's result) are exact rationals [num, den].                   *)
(***************************************************************************)
EXTENDS Integers, Sequences, FiniteSets, TLC

VARIABLES
    pc,        \* which operation the state belongs to, and its position in it
    args,      \* the arguments of the pure function under call
    ret,       \* its return value
    hole,      \* evalOnFlop: the two hole cards
    flop,      \* evalOnFlop: the three flop cards
    loc,       \* evalOnFlop: its locals at the return statement
    ev,        \* evalOnFlop: the EvalResult it returns
    heap,      \* shuffle: the arrays, by reference
    arr,       \* shuffle: the reference passed in
    aCopy,     \* shuffle: the reference held by its local a
    idx,       \* shuffle: its loop index i (0-based, as in the source)
    mode,      \* genSpot: the practice mode
    spot,      \* genSpot: the Spot it returns
    ui         \* the component: the rest of its state (selections, xp, ...)

vars == <<pc, args, ret, hole, flop, loc, ev, heap, arr, aCopy, idx, mode, spot, ui>>

evalVars == <<hole, flop, loc, ev>>
shuffleVars == <<heap, arr, aCopy, idx>>
spotVars == <<mode, spot, ui>>
fnVars == <<args, ret>>

None == "-"

\* the parts of the state an operation does not use
NoEval == hole = None /\ flop = None /\ loc = None /\ ev = None
NoFn == args = None /\ ret = None
NoShuffle == heap = None /\ arr = None /\ aCopy = None /\ idx = None
NoSpot == mode = None /\ spot = None /\ ui = None

\* ------------------------------------------------------------------ cards

RANKS == <<"2", "3", "4", "5", "6", "7", "8", "9", "T", "J", "Q", "K", "A">>
SUITS == <<"s", "h", "d", "c">>

\* a card whose id is its rank alone
PlayingCard_RankId(rank, suit) == [rank |-> rank, suit |-> suit, id |-> rank]

\* { rank, suit, id: `${rank}${suit}` }
PlayingCard(rank, suit) == [rank |-> rank, suit |-> suit, id |-> rank \o suit]

RECURSIVE makeDeckFrom(_, _, _)
\* the two nested loops of makeDeck, from suit si and rank ri (1-based) on
makeDeckFrom(deck, si, ri) ==
    IF si > Len(SUITS) THEN deck
    ELSE IF ri > Len(RANKS) THEN makeDeckFrom(deck, si + 1, 1)
    ELSE makeDeckFrom(Append(deck, PlayingCard(RANKS[ri], SUITS[si])), si, ri + 1)

makeDeck == makeDeckFrom(<<>>, 1, 1)

\* ---------------------------------------------------------------- shuffle

\* Arrays live in the heap, a function from references to sequences, so that
\* a copy and an alias differ.  [...arr] allocates a new array.
\* (spread_Alias is the in-place variant, a = arr, that C9 rules out.)
spread_Alias(h, r) == [heap |-> h, ref |-> r]

spread(h, r) ==
    LET new == Cardinality(DOMAIN h) + 1
    IN  [heap |-> h @@ (new :> h[r]), ref |-> new]

\* a[i] = a[j]; a[j] = a[i]: the second assignment reads the overwritten a[i]
swap_Sequential(s, m, n) == [s EXCEPT ![m + 1] = s[n + 1]]

\* [a[i], a[j]] = [a[j], a[i]], on 0-based indices
swap(s, m, n) == [s EXCEPT ![m + 1] = s[n + 1], ![n + 1] = s[m + 1]]

\* Math.floor(Math.random() * (i + 1)): any of 0..i
randomIndex(m) == 0..m

\* const a = [...arr]; and the loop's initialisation i = a.length - 1
ShuffleCopy ==
    /\ pc = "shuffle"
    /\ LET c == spread(heap, arr)
       IN  /\ heap' = c.heap
           /\ aCopy' = c.ref
           /\ idx' = Len(heap[arr]) - 1
    /\ pc' = "shuffle:loop"
    /\ UNCHANGED <<arr, fnVars, evalVars, spotVars>>

\* one turn of the loop: i > 0, draw j, swap a[i] and a[j], i--
ShuffleStep ==
    /\ pc = "shuffle:loop"
    /\ idx > 0
    /\ \E j \in randomIndex(idx) :
          heap' = [heap EXCEPT ![aCopy] = swap(@, idx, j)]
    /\ idx' = idx - 1
    /\ UNCHANGED <<pc, arr, aCopy, fnVars, evalVars, spotVars>>

\* the loop's exit and return a
ShuffleReturn ==
    /\ pc = "shuffle:loop"
    /\ ~(idx > 0)
    /\ ret' = aCopy
    /\ pc' = "shuffle:return"
    /\ UNCHANGED <<args, shuffleVars, evalVars, spotVars>>

\* RANKS.indexOf(r), 0..12
rankIndex == [r \in {RANKS[i] : i \in DOMAIN RANKS} |-> (CHOOSE i \in DOMAIN RANKS : RANKS[i] = r) - 1]
rankValue(r) == rankIndex[r]

\* ------------------------------------------------------------ sequences

Range(s) == {s[i] : i \in DOMAIN s}

Max(S) == CHOOSE x \in S : \A y \in S : x >= y

RECURSIVE InsertionSort(_)
InsertionSort(s) ==
    IF s = <<>> THEN <<>>
    ELSE LET t == InsertionSort(Tail(s))
             k == Cardinality({i \in DOMAIN t : t[i] < Head(s)})
         IN  SubSeq(t, 1, k) \o <<Head(s)>> \o SubSeq(t, k + 1, Len(t))

\* s.sort((x, y) => x - y): an ascending sequence is its own sorted form
SortNums(s) ==
    IF \A i \in 1..(Len(s) - 1) : s[i] <= s[i + 1] THEN s ELSE InsertionSort(s)

RECURSIVE Dedup(_)
\* Array.from(new Set(s)): the first occurrence of each value, in order
Dedup(s) ==
    IF Cardinality(Range(s)) = Len(s) THEN s
    ELSE LET t == Dedup(SubSeq(s, 1, Len(s) - 1))
         IN  IF s[Len(s)] \in Range(t) THEN t ELSE Append(t, s[Len(s)])

\* ------------------------------------------------------------ evaluator

\* countByRank: Map from each rank present to its number of cards
countByRank(cards) ==
    [r \in {cards[i].rank : i \in DOMAIN cards} |->
        Cardinality({i \in DOMAIN cards : cards[i].rank = r})]

\* countBySuit: Map from each suit present to its number of cards
countBySuit(cards) ==
    [s \in {cards[i].suit : i \in DOMAIN cards} |->
        Cardinality({i \in DOMAIN cards : cards[i].suit = s})]

\* the distinct rank values of the cards, ascending (a Set, then sort)
uniqueSortedRankVals(cards) ==
    LET set == {rankValue(cards[i].rank) : i \in DOMAIN cards}
        has(v) == v \in set
    IN  SelectSeq([i \in DOMAIN RANKS |-> i - 1], has)

\* counts.filter((c) => c === n).length over the Map's values
hasPairTripsQuads(cards) ==
    LET byRank == countByRank(cards)
        n(c) == Cardinality({r \in DOMAIN byRank : byRank[r] = c})
    IN  [pairs |-> n(2), trips |-> n(3), quads |-> n(4)]

isMadeFlush(cards) ==
    LET bySuit == countBySuit(cards)
    IN  \E s \in DOMAIN bySuit : bySuit[s] >= 5

\* vals.includes(12) ? [...vals, -1] : vals, then sorted ascending
valsWithWheel(cards) ==
    LET vals == uniqueSortedRankVals(cards)
    IN  SortNums(IF 12 \in Range(vals) THEN Append(vals, -1) ELSE vals)

RECURSIVE StraightRun(_, _, _)
\* the for loop of isMadeStraight from index i (1-based) with the run so far
StraightRun(v, i, run) ==
    IF i > Len(v) THEN FALSE
    ELSE IF v[i] = v[i - 1] + 1
         THEN IF run + 1 >= 5 THEN TRUE ELSE StraightRun(v, i + 1, run + 1)
         ELSE IF v[i] # v[i - 1]
              THEN StraightRun(v, i + 1, 1)
              ELSE StraightRun(v, i + 1, run)

\* isMadeStraight without the low Ace
isMadeStraight_NoWheel(cards) == StraightRun(uniqueSortedRankVals(cards), 2, 1)

isMadeStraight(cards) == StraightRun(valsWithWheel(cards), 2, 1)

\* comb4: every [a[i], a[j], a[k], a[l]] with i < j < k < l
comb4(a) ==
    UNION {UNION {UNION {{<<a[i], a[j], a[k], a[l]>> : l \in (k + 1)..Len(a)} :
                         k \in (j + 1)..Len(a)} :
                  j \in (i + 1)..Len(a)} :
           i \in 1..Len(a)}

\* [...c].map((v) => (v === -1 ? 0 : v)).sort(): a sorted 4-sequence, which
\* keeps a duplicated 0 when c holds both -1 and 0
mapLowAce(c) == SortNums([i \in DOMAIN c |-> IF c[i] = -1 THEN 0 ELSE c[i]])

\* the body of the loop over comb4(uniq): what one combination c sets
drawKind(c) ==
    LET t == mapLowAce(c)
        span == t[4] - t[1]
        needed == (t[1]..t[4]) \ Range(t)
    IN  IF span = 3 THEN "oesd"
        ELSE IF span = 4 /\ Cardinality(needed) = 1 THEN "gutshot"
        ELSE "neither"

straightDrawType(h, f) ==
    LET cards == h \o f
        uniq == Dedup(valsWithWheel(cards))
        kinds == {drawKind(c) : c \in comb4(uniq)}
    IN  [oesd |-> "oesd" \in kinds, gutshot |-> "gutshot" \in kinds]

\* calcImprovementOuts counting made hands only, High Card left at 0
calcImprovementOuts_MadeHandsOnly(bestHandLabel) ==
    CASE bestHandLabel = "One Pair" -> 5
      [] bestHandLabel = "Two Pair" -> 4
      [] bestHandLabel = "Three of a Kind" -> 7
      [] bestHandLabel = "Full House" -> 1
      [] OTHER -> 0

\* calcImprovementOuts without its Full House line
calcImprovementOuts_NoFullHouse(bestHandLabel) ==
    CASE bestHandLabel = "High Card" -> 6
      [] bestHandLabel = "One Pair" -> 5
      [] bestHandLabel = "Two Pair" -> 4
      [] bestHandLabel = "Three of a Kind" -> 7
      [] OTHER -> 0

calcImprovementOuts(bestHandLabel) ==
    CASE bestHandLabel = "High Card" -> 6
      [] bestHandLabel = "One Pair" -> 5
      [] bestHandLabel = "Two Pair" -> 4
      [] bestHandLabel = "Three of a Kind" -> 7
      [] bestHandLabel = "Full House" -> 1
      [] OTHER -> 0

evalLocals(h, f) ==
    LET cards == h \o f
        ptq == hasPairTripsQuads(cards)
        flushCounts == countBySuit(cards)
        maxSuit == Max({flushCounts[s] : s \in DOMAIN flushCounts})
        sd == straightDrawType(h, f)
    IN  [quads |-> ptq.quads, trips |-> ptq.trips, pairs |-> ptq.pairs,
         madeFlush |-> isMadeFlush(cards),
         madeStraight |-> isMadeStraight(cards),
         isFlushDraw |-> (maxSuit = 4),
         oesd |-> sd.oesd, gutshot |-> sd.gutshot]

\* the label chain with the trips test placed before the full-house test
bestHandOf_TripsFirst(l) ==
    IF l.madeFlush /\ l.madeStraight THEN "Straight Flush"
    ELSE IF l.quads # 0 THEN "Four of a Kind"
    ELSE IF l.trips # 0 THEN "Three of a Kind"
    ELSE IF l.trips # 0 /\ l.pairs # 0 THEN "Full House"
    ELSE IF l.madeFlush THEN "Flush"
    ELSE IF l.madeStraight THEN "Straight"
    ELSE IF l.pairs >= 2 THEN "Two Pair"
    ELSE IF l.pairs = 1 THEN "One Pair"
    ELSE "High Card"

\* evalOnFlop's chain of label tests (truthiness of a count is # 0)
bestHandOf(l) ==
    IF l.madeFlush /\ l.madeStraight THEN "Straight Flush"
    ELSE IF l.quads # 0 THEN "Four of a Kind"
    ELSE IF l.trips # 0 /\ l.pairs # 0 THEN "Full House"
    ELSE IF l.madeFlush THEN "Flush"
    ELSE IF l.madeStraight THEN "Straight"
    ELSE IF l.trips # 0 THEN "Three of a Kind"
    ELSE IF l.pairs >= 2 THEN "Two Pair"
    ELSE IF l.pairs = 1 THEN "One Pair"
    ELSE "High Card"

\* the draw chain without the guard on made flushes and straights
drawOf_NoMadeGuard(l) ==
    IF l.isFlushDraw /\ l.oesd
    THEN [outs |-> 15, drawLabel |-> "Combo Draw (Flush + Straight)"]
    ELSE IF l.isFlushDraw THEN [outs |-> 9, drawLabel |-> "Flush Draw"]
    ELSE IF l.oesd THEN [outs |-> 8, drawLabel |-> "Open-Ended Straight Draw"]
    ELSE IF l.gutshot THEN [outs |-> 4, drawLabel |-> "Gutshot Straight Draw"]
    ELSE [outs |-> 0, drawLabel |-> "None"]

\* the draw chain with the combo draw's outs added up (9 + 8)
drawOf_ComboSum(l) ==
    IF ~l.madeFlush /\ ~l.madeStraight
    THEN IF l.isFlushDraw /\ l.oesd
         THEN [outs |-> 17, drawLabel |-> "Combo Draw (Flush + Straight)"]
         ELSE IF l.isFlushDraw THEN [outs |-> 9, drawLabel |-> "Flush Draw"]
         ELSE IF l.oesd THEN [outs |-> 8, drawLabel |-> "Open-Ended Straight Draw"]
         ELSE IF l.gutshot THEN [outs |-> 4, drawLabel |-> "Gutshot Straight Draw"]
         ELSE [outs |-> 0, drawLabel |-> "None"]
    ELSE [outs |-> 0, drawLabel |-> "None"]

\* the draw chain with the straight draws tested before the flush draw
drawOf_StraightDrawFirst(l) ==
    IF ~l.madeFlush /\ ~l.madeStraight
    THEN IF l.isFlushDraw /\ l.oesd
         THEN [outs |-> 15, drawLabel |-> "Combo Draw (Flush + Straight)"]
         ELSE IF l.oesd THEN [outs |-> 8, drawLabel |-> "Open-Ended Straight Draw"]
         ELSE IF l.gutshot THEN [outs |-> 4, drawLabel |-> "Gutshot Straight Draw"]
         ELSE IF l.isFlushDraw THEN [outs |-> 9, drawLabel |-> "Flush Draw"]
         ELSE [outs |-> 0, drawLabel |-> "None"]
    ELSE [outs |-> 0, drawLabel |-> "None"]

\* evalOnFlop's draw chain: outs and drawLabel
drawOf(l) ==
    IF ~l.madeFlush /\ ~l.madeStraight
    THEN IF l.isFlushDraw /\ l.oesd
         THEN [outs |-> 15, drawLabel |-> "Combo Draw (Flush + Straight)"]
         ELSE IF l.isFlushDraw THEN [outs |-> 9, drawLabel |-> "Flush Draw"]
         ELSE IF l.oesd THEN [outs |-> 8, drawLabel |-> "Open-Ended Straight Draw"]
         ELSE IF l.gutshot THEN [outs |-> 4, drawLabel |-> "Gutshot Straight Draw"]
         ELSE [outs |-> 0, drawLabel |-> "None"]
    ELSE [outs |-> 0, drawLabel |-> "None"]

evalResult(l) ==
    LET bestHandLabel == bestHandOf(l)
        d == drawOf(l)
    IN  [bestHandLabel |-> bestHandLabel, drawLabel |-> d.drawLabel,
         outs |-> d.outs, improvementOuts |-> calcImprovementOuts(bestHandLabel)]

evalOnFlop(h, f) == evalResult(evalLocals(h, f))

\* ------------------------------------------------------------- numbers

\* A number of the source that may be a fraction is a rational [num, den] in
\* lowest terms with den > 0; a division by zero gives NaN (0/0) or Infinity
\* (1/0), written with den = 0.
RECURSIVE GCD(_, _)
GCD(x, y) == IF y = 0 THEN x ELSE GCD(y, x % y)

Abs(x) == IF x < 0 THEN -x ELSE x

Rat(n, d) ==
    LET g == GCD(Abs(n), Abs(d))
    IN  IF d < 0 THEN [num |-> (-n) \div g, den |-> (-d) \div g]
        ELSE [num |-> n \div g, den |-> d \div g]

NaN == [num |-> 0, den |-> 0]
Infinity == [num |-> 1, den |-> 0]

IsRat(r) == r.den # 0

\* x / y on integers x >= 0
Div(x, y) ==
    IF y = 0 THEN (IF x = 0 THEN NaN ELSE Infinity) ELSE Rat(x, y)

\* r * k, k a positive integer
Times(r, k) == IF IsRat(r) THEN Rat(r.num * k, r.den) ELSE r

\* k >= r, k an integer; a comparison with NaN is false
IntGeq(k, r) == IF IsRat(r) THEN k * r.den >= r.num ELSE FALSE

\* Math.round(r): the nearest integer, halves upwards
Round(r) == (2 * r.num + r.den) \div (2 * r.den)

\* Math.floor(r * 10) / 10: cut off after the first decimal, not rounded
RoundTenth_Floor(r) == Rat(Times(r, 10).num \div Times(r, 10).den, 10)

\* Math.round(r * 10) / 10
RoundTenth(r) == Rat(Round(Times(r, 10)), 10)

\* ---------------------------------------------- pot odds and the decision

\* call / pot * 100, the mistake the trainer warns of
potOddsPct_CallOverPot(pot, callAmt) == Times(Div(callAmt, pot), 100)

potOddsPct(pot, callAmt) == Times(Div(callAmt, pot + callAmt), 100)

MinOf(x, y) == IF x <= y THEN x ELSE y

\* the Rule of 4 without its clamp
approxEquityFromOuts_NoClamp(outs) == outs * 4

approxEquityFromOuts(outs) == MinOf(100, outs * 4)

strongMade(bestHand) ==
    bestHand \in {"Two Pair", "Three of a Kind", "Straight", "Flush",
                  "Full House", "Four of a Kind", "Straight Flush"}

\* recommendDecision without the +2 margin
recommendDecision_NoMargin(bestHand, outs, reqPct) ==
    IF strongMade(bestHand) THEN "Raise"
    ELSE IF outs >= 15 THEN "Raise"
    ELSE IF IntGeq(approxEquityFromOuts(outs), reqPct) THEN "Call"
    ELSE "Fold"

\* recommendDecision without the raise on a big draw
recommendDecision_NoBigDraw(bestHand, outs, reqPct) ==
    IF strongMade(bestHand) THEN "Raise"
    ELSE IF IntGeq(approxEquityFromOuts(outs) + 2, reqPct) THEN "Call"
    ELSE "Fold"

recommendDecision(bestHand, outs, reqPct) ==
    IF strongMade(bestHand) THEN "Raise"
    ELSE LET equity == approxEquityFromOuts(outs)
         IN  IF outs >= 15 THEN "Raise"
             ELSE IF IntGeq(equity + 2, reqPct) THEN "Call"
             ELSE "Fold"

\* ------------------------------------------------------- spot generator

Modes == {"HAND", "OUTS", "DECISION"}

POTS == <<40, 50, 60, 80, 100, 120>>
BETS == <<10, 15, 20, 25, 30>>

\* buildDecisionWhy: the sentence, as its kind and the numbers it quotes
buildDecisionWhy(decision, bestHandLabel, outs, equity, potOdds) ==
    LET po == Round(potOdds)
    IN  IF decision = "Raise"
        THEN IF strongMade(bestHandLabel) /\ outs >= 15
             THEN [kind |-> "strong hand + big draw", quotes |-> <<>>]
             ELSE IF strongMade(bestHandLabel)
             THEN [kind |-> "strong made hand", quotes |-> <<>>]
             ELSE [kind |-> "massive draw", quotes |-> <<outs, equity>>]
        ELSE IF decision = "Call"
        THEN [kind |-> "equity beats the price", quotes |-> <<equity, po>>]
        ELSE [kind |-> "equity is below the price", quotes |-> <<equity, po>>]

\* a deal whose flop starts at the second hole card
deal_Overlap(deck) ==
    [hole |-> <<deck[1], deck[2]>>, flop |-> <<deck[2], deck[3], deck[4]>>]

\* hole = [deck[0], deck[1]] and flop = [deck[2], deck[3], deck[4]]
deal(deck) ==
    [hole |-> <<deck[1], deck[2]>>, flop |-> <<deck[3], deck[4], deck[5]>>]

\* genSpot clearing the money amounts in HAND mode only
genSpot_MoneyInOuts(m, h, f, e, potIdx, betIdx) ==
    LET pot == IF m = "HAND" THEN 0 ELSE POTS[potIdx + 1]
        betToCall == IF m = "HAND" THEN 0 ELSE BETS[betIdx + 1]
        reqPct == IF betToCall # 0 THEN potOddsPct(pot, betToCall) ELSE Rat(0, 1)
        decision == IF m = "DECISION"
                    THEN recommendDecision(e.bestHandLabel, e.outs, reqPct)
                    ELSE "Call"
        finalDecision == IF m = "DECISION" THEN decision ELSE "Call"
        eq == MinOf(100, e.outs * 4)
        decisionWhy == buildDecisionWhy(finalDecision, e.bestHandLabel, e.outs, eq, reqPct)
    IN  [hole |-> h, flop |-> f, pot |-> pot, betToCall |-> betToCall,
         solution |-> [bestHandLabel |-> e.bestHandLabel,
                       drawLabel |-> e.drawLabel,
                       outs |-> e.outs,
                       improvementOuts |-> e.improvementOuts,
                       potOddsPct |-> RoundTenth(reqPct),
                       decision |-> finalDecision,
                       decisionWhy |-> decisionWhy]]

\* genSpot reporting the decision engine's result in every mode
genSpot_EngineInEveryMode(m, h, f, e, potIdx, betIdx) ==
    LET pot == IF m = "HAND" \/ m = "OUTS" THEN 0 ELSE POTS[potIdx + 1]
        betToCall == IF m = "HAND" \/ m = "OUTS" THEN 0 ELSE BETS[betIdx + 1]
        reqPct == IF betToCall # 0 THEN potOddsPct(pot, betToCall) ELSE Rat(0, 1)
        decision == recommendDecision(e.bestHandLabel, e.outs, reqPct)
        eq == MinOf(100, e.outs * 4)
        decisionWhy == buildDecisionWhy(decision, e.bestHandLabel, e.outs, eq, reqPct)
    IN  [hole |-> h, flop |-> f, pot |-> pot, betToCall |-> betToCall,
         solution |-> [bestHandLabel |-> e.bestHandLabel,
                       drawLabel |-> e.drawLabel,
                       outs |-> e.outs,
                       improvementOuts |-> e.improvementOuts,
                       potOddsPct |-> RoundTenth(reqPct),
                       decision |-> decision,
                       decisionWhy |-> decisionWhy]]

\* genSpot from the deal on: h and f are deck[0..1] and deck[2..4], potIdx and
\* betIdx the two random indices.  The explainer, a restatement in text of the
\* fields below, is left out.
genSpot(m, h, f, e, potIdx, betIdx) ==
    LET pot == IF m = "HAND" \/ m = "OUTS" THEN 0 ELSE POTS[potIdx + 1]
        betToCall == IF m = "HAND" \/ m = "OUTS" THEN 0 ELSE BETS[betIdx + 1]
        reqPct == IF betToCall # 0 THEN potOddsPct(pot, betToCall) ELSE Rat(0, 1)
        decision == IF m = "DECISION"
                    THEN recommendDecision(e.bestHandLabel, e.outs, reqPct)
                    ELSE "Call"
        finalDecision == IF m = "DECISION" THEN decision ELSE "Call"
        eq == MinOf(100, e.outs * 4)
        decisionWhy == buildDecisionWhy(finalDecision, e.bestHandLabel, e.outs, eq, reqPct)
    IN  [hole |-> h, flop |-> f, pot |-> pot, betToCall |-> betToCall,
         solution |-> [bestHandLabel |-> e.bestHandLabel,
                       drawLabel |-> e.drawLabel,
                       outs |-> e.outs,
                       improvementOuts |-> e.improvementOuts,
                       potOddsPct |-> RoundTenth(reqPct),
                       decision |-> finalDecision,
                       decisionWhy |-> decisionWhy]]

\* ------------------------------------------------- evaluator specification

\* The hands put to evalOnFlop: five distinct cards of the deck, in deck order
\* and in all four suits, whose ranks all lie in one of two windows: the Ace
\* with the NumLowRanks lowest ranks (the wheel and the low straights), or the
\* NumHighRanks highest ranks (Ten..Ace: broadway and the high draws).  Every
\* made-hand category and every draw lies among them.
NumLowRanks == 6
NumHighRanks == 5

LowRanks == {RANKS[Len(RANKS)]} \cup {RANKS[k] : k \in 1..NumLowRanks}
HighRanks == {RANKS[k] : k \in (Len(RANKS) - NumHighRanks + 1)..Len(RANKS)}
DealWindows == {LowRanks, HighRanks}

DeckIdx(card) == CHOOSE k \in DOMAIN makeDeck : makeDeck[k] = card
\* the deck positions after position k holding a rank of window w
HigherIdx(w, k) == {n \in DOMAIN makeDeck : n > k /\ makeDeck[n].rank \in w}

\* genSpot's deal, first half: hole = [deck[0], deck[1]]
InitEval ==
    /\ pc = "hole"
    /\ \E w \in DealWindows : \E i1 \in HigherIdx(w, 0) : \E i2 \in HigherIdx(w, i1) :
          hole = <<makeDeck[i1], makeDeck[i2]>>
    /\ flop = None /\ loc = None /\ ev = None
    /\ NoFn /\ NoShuffle /\ NoSpot

\* genSpot's deal, second half, and its call of evalOnFlop(hole, flop)
EvalOnFlop ==
    /\ pc = "hole"
    /\ \E w \in {x \in DealWindows : hole[1].rank \in x /\ hole[2].rank \in x} :
       \E i3 \in HigherIdx(w, DeckIdx(hole[2])) : \E i4 \in HigherIdx(w, i3) :
       \E i5 \in HigherIdx(w, i4) :
          flop' = <<makeDeck[i3], makeDeck[i4], makeDeck[i5]>>
    /\ loc' = evalLocals(hole, flop')
    /\ ev' = evalResult(loc')
    /\ pc' = "evaluated"
    /\ UNCHANGED <<hole, fnVars, shuffleVars, spotVars>>

NextEval == EvalOnFlop

SpecEval == InitEval /\ [][NextEval]_vars

\* --------------------------------------------- what the claims say of a hand

HAND_OPTIONS ==
    <<"High Card", "One Pair", "Two Pair", "Three of a Kind", "Straight",
      "Flush", "Full House", "Four of a Kind", "Straight Flush">>

Cards == hole \o flop
NumOfRank(r) == Cardinality({k \in DOMAIN Cards : Cards[k].rank = r})
NumOfSuit(u) == Cardinality({k \in DOMAIN Cards : Cards[k].suit = u})
HandRanks == {Cards[k].rank : k \in DOMAIN Cards}
HandSuits == {Cards[k].suit : k \in DOMAIN Cards}

\* Two = 0 .. Ace = 12, and -1 as well when an Ace is present
RankVals(cs) ==
    LET vs == {k - 1 : k \in {n \in DOMAIN RANKS : \E c \in DOMAIN cs : cs[c].rank = RANKS[n]}}
    IN  IF 12 \in vs THEN vs \cup {-1} ELSE vs

HasFiveConsecutive(vs) == \E lo \in vs : \A d \in 0..4 : (lo + d) \in vs

HandIsFlush == \E u \in HandSuits : NumOfSuit(u) >= 5
HandIsStraight == HasFiveConsecutive(RankVals(Cards))
HandIsQuads == \E r \in HandRanks : NumOfRank(r) = 4
HandIsFullHouse ==
    \E r \in HandRanks : \E q \in HandRanks \ {r} : NumOfRank(r) = 3 /\ NumOfRank(q) = 2
HandIsTrips == \E r \in HandRanks : NumOfRank(r) = 3
HandPairedRanks == {r \in HandRanks : NumOfRank(r) = 2}

FirstCategory ==
    IF HandIsFlush /\ HandIsStraight THEN "Straight Flush"
    ELSE IF HandIsQuads THEN "Four of a Kind"
    ELSE IF HandIsFullHouse THEN "Full House"
    ELSE IF HandIsFlush THEN "Flush"
    ELSE IF HandIsStraight THEN "Straight"
    ELSE IF HandIsTrips THEN "Three of a Kind"
    ELSE IF Cardinality(HandPairedRanks) >= 2 THEN "Two Pair"
    ELSE IF Cardinality(HandPairedRanks) >= 1 THEN "One Pair"
    ELSE "High Card"

\* C1: for every five distinct cards evalOnFlop returns one of the nine hand
\* categories, the first that applies in the order Straight Flush > Four of a
\* Kind > Full House > Flush > Straight > Three of a Kind > Two Pair > One Pair
\* > High Card.
C1_FirstApplicableCategory ==
    pc = "evaluated" =>
        /\ \E k \in DOMAIN HAND_OPTIONS : ev.bestHandLabel = HAND_OPTIONS[k]
        /\ ev.bestHandLabel = FirstCategory

\* a full house met after the deal: trips and a pair, labelled Full House
C1_Witness ==
    /\ pc = "evaluated"
    /\ HandIsFullHouse /\ HandIsTrips
    /\ ev.bestHandLabel = "Full House"

\* C2: a draw (drawLabel other than "None", or outs > 0) is reported only when
\* the five cards are neither a made flush nor a made straight; a Straight,
\* Flush or Straight Flush has drawLabel "None" and outs 0.
C2_DrawOnlyWithoutMadeHand ==
    pc = "evaluated" =>
        /\ (ev.drawLabel # "None" \/ ev.outs > 0) => (~HandIsFlush /\ ~HandIsStraight)
        /\ ev.bestHandLabel \in {"Straight", "Flush", "Straight Flush"} =>
              (ev.drawLabel = "None" /\ ev.outs = 0)

\* a made flush whose ranks would otherwise count as a straight draw
C2_Witness ==
    /\ pc = "evaluated"
    /\ ev.bestHandLabel = "Flush"
    /\ loc.oesd
    /\ ev.drawLabel = "None" /\ ev.outs = 0

\* C3: (drawLabel, outs) is one of (Combo Draw, 15), (Flush Draw, 9),
\* (Open-Ended Straight Draw, 8), (Gutshot Straight Draw, 4), (None, 0).
C3_DrawOutsTable ==
    pc = "evaluated" =>
        <<ev.drawLabel, ev.outs>> \in
            {<<"Combo Draw (Flush + Straight)", 15>>, <<"Flush Draw", 9>>,
             <<"Open-Ended Straight Draw", 8>>, <<"Gutshot Straight Draw", 4>>,
             <<"None", 0>>}

\* a hand with four cards of a suit and four ranks in a row: the combo draw
C3_Witness ==
    /\ pc = "evaluated"
    /\ \E u \in HandSuits : NumOfSuit(u) = 4
    /\ ev.drawLabel = "Combo Draw (Flush + Straight)" /\ ev.outs = 15

ImprovementTable(label) ==
    CASE label = "High Card" -> 6
      [] label = "One Pair" -> 5
      [] label = "Two Pair" -> 4
      [] label = "Three of a Kind" -> 7
      [] label = "Full House" -> 1
      [] label \in {"Straight", "Flush", "Straight Flush"} -> 0
      [] OTHER -> 0

\* C4: improvementOuts is the documented constant of bestHandLabel: High Card 6,
\* One Pair 5, Two Pair 4, Three of a Kind 7, Full House 1, and 0 for Straight,
\* Flush, Straight Flush and any other label.
C4_ImprovementOutsTable ==
    pc = "evaluated" => ev.improvementOuts = ImprovementTable(ev.bestHandLabel)

\* three of a kind met after the deal, with its 7 improvement outs
C4_Witness ==
    /\ pc = "evaluated"
    /\ HandIsTrips /\ ~HandIsFullHouse
    /\ ev.bestHandLabel = "Three of a Kind" /\ ev.improvementOuts = 7

\* ---------------------------------------------------- potOddsPct alone

MaxPot == 120
MaxCall == 30

InitPotOdds ==
    /\ pc = "potOddsPct"
    /\ args \in [pot : 0..MaxPot, callAmt : 1..MaxCall]
    /\ ret = None
    /\ NoEval /\ NoShuffle /\ NoSpot

PotOddsPct ==
    /\ pc = "potOddsPct"
    /\ ret' = potOddsPct(args.pot, args.callAmt)
    /\ pc' = "potOddsPct:return"
    /\ UNCHANGED <<args, evalVars, shuffleVars, spotVars>>

NextPotOdds == PotOddsPct

SpecPotOdds == InitPotOdds /\ [][NextPotOdds]_vars

\* C10: for pot >= 0 and call > 0, potOddsPct(pot, call) is the number
\* call / (pot + call) * 100; potOddsPct(80, 20) = 20 and potOddsPct(60, 20) = 25.
C10_PotOddsIdentity ==
    pc = "potOddsPct:return" =>
        /\ ret.den > 0
        /\ ret.num * (args.pot + args.callAmt) = 100 * args.callAmt * ret.den
        /\ (args.pot = 80 /\ args.callAmt = 20) => (ret.num = 20 /\ ret.den = 1)
        /\ (args.pot = 60 /\ args.callAmt = 20) => (ret.num = 25 /\ ret.den = 1)

\* the self-test's first case, returned
C10_Witness ==
    /\ pc = "potOddsPct:return"
    /\ args.pot = 80 /\ args.callAmt = 20
    /\ ret.num = 20 /\ ret.den = 1

\* ----------------------------------------------- recommendDecision alone

MaxOuts == 16
MaxPctNum == 100
MaxPctDen == 2

ReqPcts == {Rat(n, d) : n \in 0..MaxPctNum, d \in 1..MaxPctDen}

InitDecision ==
    /\ pc = "recommendDecision"
    /\ args \in [bestHand : {HAND_OPTIONS[k] : k \in DOMAIN HAND_OPTIONS},
                 outs : 0..MaxOuts, reqPct : ReqPcts]
    /\ ret = None
    /\ NoEval /\ NoShuffle /\ NoSpot

RecommendDecision ==
    /\ pc = "recommendDecision"
    /\ ret' = recommendDecision(args.bestHand, args.outs, args.reqPct)
    /\ pc' = "recommendDecision:return"
    /\ UNCHANGED <<args, evalVars, shuffleVars, spotVars>>

NextDecision == RecommendDecision

SpecDecision == InitDecision /\ [][NextDecision]_vars

ArgsStrong ==
    args.bestHand \in {"Two Pair", "Three of a Kind", "Straight", "Flush",
                       "Full House", "Four of a Kind", "Straight Flush"}
ArgsEquity == IF args.outs * 4 < 100 THEN args.outs * 4 ELSE 100
\* min(100, outs * 4) + 2 >= reqPct
ArgsPriceMet == (ArgsEquity + 2) * args.reqPct.den >= args.reqPct.num

\* C5: the decision follows the first matching rule: Raise on a strong made
\* hand, else Raise on outs >= 15, else Call if min(100, outs*4) + 2 >= reqPct,
\* else Fold; (Flush, any, any) is Raise and (High Card, 4, 50) is Fold.
C5_DecisionRules ==
    pc = "recommendDecision:return" =>
        /\ ret \in {"Fold", "Call", "Raise"}
        /\ ret = "Raise" <=> (ArgsStrong \/ args.outs >= 15)
        /\ ret = "Call" <=> (~ArgsStrong /\ args.outs < 15 /\ ArgsPriceMet)
        /\ ret = "Fold" <=> (~ArgsStrong /\ args.outs < 15 /\ ~ArgsPriceMet)
        /\ args.bestHand = "Flush" => ret = "Raise"
        /\ (args.bestHand = "High Card" /\ args.outs = 4 /\ args.reqPct = Rat(50, 1))
              => ret = "Fold"

\* a close spot the +2 margin turns into a call: 9 outs (36%) at a price of 38%
C5_Witness ==
    /\ pc = "recommendDecision:return"
    /\ args.bestHand = "High Card" /\ args.outs = 9 /\ args.reqPct = Rat(38, 1)
    /\ ret = "Call"

\* -------------------------------------------------- isMadeStraight alone

\* The hands put to isMadeStraight: five distinct cards, as evalOnFlop passes,
\* of all thirteen ranks, in deck order, from the first NumStraightSuits suits.
NumStraightSuits == 2

StraightIdx == {k \in DOMAIN makeDeck : \E u \in 1..NumStraightSuits : makeDeck[k].suit = SUITS[u]}
After(k) == {n \in StraightIdx : n > k}

InitStraight ==
    /\ pc = "isMadeStraight"
    /\ \E i1 \in StraightIdx : \E i2 \in After(i1) : \E i3 \in After(i2) :
       \E i4 \in After(i3) : \E i5 \in After(i4) :
          args = [cards |-> <<makeDeck[i1], makeDeck[i2], makeDeck[i3],
                              makeDeck[i4], makeDeck[i5]>>]
    /\ ret = None
    /\ NoEval /\ NoShuffle /\ NoSpot

IsMadeStraight ==
    /\ pc = "isMadeStraight"
    /\ ret' = isMadeStraight(args.cards)
    /\ pc' = "isMadeStraight:return"
    /\ UNCHANGED <<args, evalVars, shuffleVars, spotVars>>

NextStraight == IsMadeStraight

SpecStraight == InitStraight /\ [][NextStraight]_vars

ArgRanks == {args.cards[k].rank : k \in DOMAIN args.cards}
IsWheel == ArgRanks = {"A", "2", "3", "4", "5"}
IsBroadway == ArgRanks = {"T", "J", "Q", "K", "A"}
IsWrapAround == ArgRanks = {"Q", "K", "A", "2", "3"}

\* C7: isMadeStraight is true exactly when the distinct rank values (Two = 0 ..
\* Ace = 12, and -1 too when an Ace is present) contain 5 consecutive values:
\* the wheel and T-J-Q-K-A are straights, the wrap-around Q-K-A-2-3 is not.
C7_StraightIffFiveConsecutive ==
    pc = "isMadeStraight:return" =>
        /\ ret <=> HasFiveConsecutive(RankVals(args.cards))
        /\ IsWheel => ret
        /\ IsBroadway => ret
        /\ IsWrapAround => ~ret

\* the wheel, returned as a straight
C7_Witness ==
    /\ pc = "isMadeStraight:return"
    /\ IsWheel
    /\ ret

\* ---------------------------------------------------------- shuffle alone

\* The arrays put to shuffle: every sequence of at most MaxLen elements drawn,
\* with repetition, from 1..MaxElem.
MaxLen == 4
MaxElem == 3

InputArrays == UNION {[1..n -> 1..MaxElem] : n \in 0..MaxLen}

InitShuffle ==
    /\ pc = "shuffle"
    /\ \E input \in InputArrays : heap = (1 :> input)
    /\ arr = 1
    /\ aCopy = None /\ idx = None
    /\ NoFn /\ NoEval /\ NoSpot

NextShuffle == ShuffleCopy \/ ShuffleStep \/ ShuffleReturn

SpecShuffle == InitShuffle /\ [][NextShuffle]_vars

Count(s, x) == Cardinality({k \in DOMAIN s : s[k] = x})

\* same length and the same number of occurrences of every element
IsPermutationOf(s, t) ==
    /\ Len(s) = Len(t)
    /\ \A x \in Range(s) \cup Range(t) : Count(s, x) = Count(t, x)

\* a step leaves the array passed in as it was
InputKept == heap'[arr] = heap[arr]

\* C9: whatever is drawn, shuffle returns a permutation of its input (same
\* elements with the same multiplicities, same length) and never changes the
\* input array itself.
C9_ShufflePermutesACopy ==
    /\ [](pc = "shuffle:return" => IsPermutationOf(heap[ret], heap[arr]))
    /\ [][InputKept]_vars

\* a returned array that differs from its input, which holds a repeated element
C9_Witness ==
    /\ pc = "shuffle:return"
    /\ heap[ret] # heap[arr]
    /\ Len(heap[arr]) = MaxLen
    /\ Cardinality(Range(heap[arr])) < Len(heap[arr])

\* ------------------------------------------- makeDeck, as genSpot calls it

\* genSpot's first line, shuffle(makeDeck()): the deck is built, copied and
\* shuffled; of the 51 turns of the loop the first MaxDeckSwaps are followed.
MaxDeckSwaps == 2

InitDeck ==
    /\ pc = "makeDeck"
    /\ heap = <<>>
    /\ arr = None /\ aCopy = None /\ idx = None
    /\ NoFn /\ NoEval /\ NoSpot

\* makeDeck() returns a new array, the argument of shuffle
MakeDeck ==
    /\ pc = "makeDeck"
    /\ heap' = (1 :> makeDeck)
    /\ arr' = 1
    /\ pc' = "shuffle"
    /\ UNCHANGED <<aCopy, idx, fnVars, evalVars, spotVars>>

DeckShuffleStep ==
    /\ pc = "shuffle:loop"
    /\ Len(heap[aCopy]) - 1 - idx < MaxDeckSwaps
    /\ ShuffleStep

NextDeck == MakeDeck \/ ShuffleCopy \/ DeckShuffleStep

SpecDeck == InitDeck /\ [][NextDeck]_vars

\* C8: makeDeck returns exactly 52 cards, one for each (rank, suit) pair of
\* the 13 ranks and 4 suits, with 52 distinct ids.
C8_DeckIntegrity ==
    pc # "makeDeck" =>
        LET deck == heap[arr]
        IN  /\ Len(deck) = 52
            /\ Len(RANKS) = 13 /\ Len(SUITS) = 4
            /\ \A r \in DOMAIN RANKS : \A u \in DOMAIN SUITS :
                  Cardinality({k \in DOMAIN deck :
                      deck[k].rank = RANKS[r] /\ deck[k].suit = SUITS[u]}) = 1
            /\ Cardinality({deck[k].id : k \in DOMAIN deck}) = 52

\* the deck as returned, handed to shuffle
C8_Witness ==
    /\ pc = "shuffle"
    /\ Len(heap[arr]) = 52
    /\ heap[arr][1].id = "2s" /\ heap[arr][52].id = "Ac"

\* ---------------------------------------------------------- genSpot alone

\* The deals put to genSpot: the first five cards of the shuffled deck, any
\* five distinct cards in any order among the NumSpotCards cards that follow
\* the Nine of spades in makeDeck's order (Ten..Ace of spades, Two of hearts..).
NumSpotCards == 6

FirstSpotIdx == CHOOSE k \in DOMAIN makeDeck : makeDeck[k].id = "Ts"
SpotIdx == FirstSpotIdx..(FirstSpotIdx + NumSpotCards - 1)

InitSpot ==
    /\ pc = "genSpot"
    /\ mode \in Modes
    /\ spot = None /\ ui = None
    /\ NoFn /\ NoEval /\ NoShuffle

GenSpot ==
    /\ pc = "genSpot"
    /\ \E i1 \in SpotIdx : \E i2 \in SpotIdx \ {i1} : \E i3 \in SpotIdx \ {i1, i2} :
       \E i4 \in SpotIdx \ {i1, i2, i3} : \E i5 \in SpotIdx \ {i1, i2, i3, i4} :
          /\ hole' = <<makeDeck[i1], makeDeck[i2]>>
          /\ flop' = <<makeDeck[i3], makeDeck[i4], makeDeck[i5]>>
    /\ loc' = evalLocals(hole', flop')
    /\ ev' = evalResult(loc')
    /\ \E potIdx \in 0..(Len(POTS) - 1) : \E betIdx \in 0..(Len(BETS) - 1) :
          spot' = genSpot(mode, hole', flop', ev', potIdx, betIdx)
    /\ pc' = "genSpot:return"
    /\ UNCHANGED <<mode, ui, fnVars, shuffleVars>>

NextSpot == GenSpot

SpecSpot == InitSpot /\ [][NextSpot]_vars

Ids(cs) == {cs[k].id : k \in DOMAIN cs}

ScenarioSpot ==
    /\ pc = "genSpot:return"
    /\ mode = "DECISION"
    /\ Ids(spot.hole) = {"As", "Ks"}
    /\ Ids(spot.flop) = {"Qs", "Js", "2h"}
    /\ spot.pot = 60 /\ spot.betToCall = 20

\* C6: for hole {As, Ks} and flop {Qs, Js, 2h} the hand is High Card with a
\* flush draw and an open-ended straight draw, so Combo Draw with 15 outs; with
\* pot 60 and call 20 the required pot odds are 25 and the decision is Raise.
C6_ComboDrawScenario ==
    ScenarioSpot =>
        /\ spot.solution.bestHandLabel = "High Card"
        /\ loc.isFlushDraw /\ loc.oesd
        /\ spot.solution.drawLabel = "Combo Draw (Flush + Straight)"
        /\ spot.solution.outs = 15
        /\ spot.solution.potOddsPct = Rat(25, 1)
        /\ spot.solution.decision = "Raise"

\* the scenario's spot, generated
C6_Witness ==
    /\ ScenarioSpot
    /\ spot.hole[1].id = "As" /\ spot.flop[3].id = "2h"
    /\ spot.solution.decision = "Raise"


\* ------------------------------------------- approxEquityFromOuts alone

\* The outs put to approxEquityFromOuts: 0..MaxEquityOuts, past the 25 outs
\* at which the clamp sets in.
MaxEquityOuts == 60

InitEquity ==
    /\ pc = "approxEquityFromOuts"
    /\ args \in [outs : 0..MaxEquityOuts]
    /\ ret = None
    /\ NoEval /\ NoShuffle /\ NoSpot

ApproxEquityFromOuts ==
    /\ pc = "approxEquityFromOuts"
    /\ ret' = approxEquityFromOuts(args.outs)
    /\ pc' = "approxEquityFromOuts:return"
    /\ UNCHANGED <<args, evalVars, shuffleVars, spotVars>>

NextEquity == ApproxEquityFromOuts

SpecEquity == InitEquity /\ [][NextEquity]_vars

\* C11: for outs >= 0, approxEquityFromOuts(outs) is the smaller of 100 and
\* outs * 4, so never above 100; it is 36 for 9 outs, 60 for 15, 100 for 30.
C11_RuleOfFourClamp ==
    pc = "approxEquityFromOuts:return" =>
        /\ ret <= 100 /\ ret <= args.outs * 4
        /\ ret = 100 \/ ret = args.outs * 4
        /\ args.outs = 9 => ret = 36
        /\ args.outs = 15 => ret = 60
        /\ args.outs = 30 => ret = 100

\* 30 outs, where outs * 4 = 120 is clamped to 100
C11_Witness ==
    /\ pc = "approxEquityFromOuts:return"
    /\ args.outs = 30
    /\ ret = 100


\* ------------------------------------------- the Spot's stored pot odds

\* the Spot's stored percentage and its money amounts
StoredPct == spot.solution.potOddsPct
PotPlusCall == spot.pot + spot.betToCall

\* the stored percentage is exactly betToCall / (pot + betToCall) * 100
StoredPctIsExact == StoredPct.num * PotPlusCall = 100 * spot.betToCall * StoredPct.den

\* the stored percentage is n / 10 for the integer n nearest to
\* betToCall / (pot + betToCall) * 1000, a half counting upwards
StoredPctIsRoundedToTenth ==
    /\ StoredPct.den \in {1, 2, 5, 10}
    /\ LET n == StoredPct.num * (10 \div StoredPct.den)
           d == n * PotPlusCall - 1000 * spot.betToCall
       IN  2 * d <= PotPlusCall /\ -2 * d < PotPlusCall

\* C12 as stated: in every Spot genSpot returns, solution.potOddsPct equals
\* betToCall / (pot + betToCall) * 100, and 0 when betToCall is 0.
C12_StoredPctIsPureFunction ==
    pc = "genSpot:return" =>
        IF spot.betToCall = 0 THEN StoredPct = Rat(0, 1) ELSE StoredPctIsExact

\* C12, amended: in every Spot genSpot returns, solution.potOddsPct equals
\* betToCall / (pot + betToCall) * 100 rounded to one decimal place, and 0
\* when betToCall is 0.
C12_StoredPctIsRoundedPureFunction ==
    pc = "genSpot:return" =>
        IF spot.betToCall = 0 THEN StoredPct = Rat(0, 1) ELSE StoredPctIsRoundedToTenth

\* pot 40 and call 15: 15 / 55 * 100 = 27.27.., stored as 27.3
C12_Witness ==
    /\ pc = "genSpot:return"
    /\ spot.pot = 40 /\ spot.betToCall = 15
    /\ StoredPct = Rat(273, 10)
    /\ ~StoredPctIsExact


\* ------------------------------------ genSpot, the shuffle and deal included

\* genSpot from its first line: the deck is built, copied and shuffled by the
\* loop of shuffle, and the first five cards are dealt.  Of the 51 turns of
\* the loop the last MaxFreeTurn (i = MaxFreeTurn .. 1, those that settle the
\* dealt positions) draw any j of 0..i; the turns before them draw j = i.
MaxFreeTurn == 5

dealDraws(m) == IF m <= MaxFreeTurn THEN randomIndex(m) ELSE {m}

InitDeal ==
    /\ pc = "makeDeck"
    /\ heap = <<>>
    /\ arr = None /\ aCopy = None /\ idx = None
    /\ mode \in Modes
    /\ spot = None /\ ui = None
    /\ NoFn /\ NoEval

DealShuffleStep ==
    /\ pc = "shuffle:loop"
    /\ idx > 0
    /\ \E j \in dealDraws(idx) :
          heap' = [heap EXCEPT ![aCopy] = swap(@, idx, j)]
    /\ idx' = idx - 1
    /\ UNCHANGED <<pc, arr, aCopy, fnVars, evalVars, spotVars>>

\* genSpot after shuffle has returned: the deal, the evaluation, the Spot
DealSpot ==
    /\ pc = "shuffle:return"
    /\ LET d == deal(heap[ret])
       IN  hole' = d.hole /\ flop' = d.flop
    /\ loc' = evalLocals(hole', flop')
    /\ ev' = evalResult(loc')
    /\ \E potIdx \in 0..(Len(POTS) - 1) : \E betIdx \in 0..(Len(BETS) - 1) :
          spot' = genSpot(mode, hole', flop', ev', potIdx, betIdx)
    /\ pc' = "genSpot:return"
    /\ UNCHANGED <<mode, ui, fnVars, shuffleVars>>

NextDeal == MakeDeck \/ ShuffleCopy \/ DealShuffleStep \/ ShuffleReturn \/ DealSpot

SpecDeal == InitDeal /\ [][NextDeal]_vars

SpotCards == spot.hole \o spot.flop

\* C13: in every Spot genSpot returns, whatever the shuffle drew, the 2 hole
\* cards and the 3 flop cards are 5 pairwise distinct cards of the 52-card
\* deck, none shared between hole and flop.
C13_DealWithoutReplacement ==
    pc = "genSpot:return" =>
        /\ Len(spot.hole) = 2 /\ Len(spot.flop) = 3
        /\ \A m \in 1..5 : \A n \in 1..5 :
              m # n => (SpotCards[m] # SpotCards[n] /\ SpotCards[m].id # SpotCards[n].id)
        /\ Range(spot.hole) \cap Range(spot.flop) = {}
        /\ Len(heap[arr]) = 52
        /\ Range(SpotCards) \subseteq Range(heap[arr])

\* a Spot dealt from a deck whose first five cards the shuffle has all moved
C13_Witness ==
    /\ pc = "genSpot:return"
    /\ \A m \in 1..5 : SpotCards[m] # heap[arr][m]
    /\ Cardinality(Range(SpotCards)) = 5


\* ------------------------------------------- the Spot's money amounts

\* C14: the money amounts follow the mode: for HAND and OUTS pot and betToCall
\* are both 0; for DECISION pot is one of 40, 50, 60, 80, 100, 120 and
\* betToCall one of 10, 15, 20, 25, 30, so both are nonzero.
C14_MoneyFollowsMode ==
    pc = "genSpot:return" =>
        /\ mode \in {"HAND", "OUTS"} => (spot.pot = 0 /\ spot.betToCall = 0)
        /\ mode = "DECISION" =>
              /\ spot.pot \in {40, 50, 60, 80, 100, 120}
              /\ spot.betToCall \in {10, 15, 20, 25, 30}
              /\ spot.pot # 0 /\ spot.betToCall # 0

\* an OUTS spot, its amounts cleared
C14_Witness ==
    /\ pc = "genSpot:return"
    /\ mode = "OUTS"
    /\ spot.pot = 0 /\ spot.betToCall = 0
    /\ spot.solution.outs > 0


\* ---------------------------------------------------------- the component

DRAW_OPTIONS ==
    <<"None", "Flush Draw", "Open-Ended Straight Draw", "Gutshot Straight Draw",
      "Combo Draw (Flush + Straight)">>

DECISION_OPTIONS == <<"Fold", "Call", "Raise">>

\* s.toLowerCase(), for the strings the component handles
toLowerCase(s) ==
    CASE s = "" -> ""
      [] s = "High Card" -> "high card"
      [] s = "One Pair" -> "one pair"
      [] s = "Two Pair" -> "two pair"
      [] s = "Three of a Kind" -> "three of a kind"
      [] s = "Straight" -> "straight"
      [] s = "Flush" -> "flush"
      [] s = "Full House" -> "full house"
      [] s = "Four of a Kind" -> "four of a kind"
      [] s = "Straight Flush" -> "straight flush"
      [] s = "None" -> "none"
      [] s = "Flush Draw" -> "flush draw"
      [] s = "Open-Ended Straight Draw" -> "open-ended straight draw"
      [] s = "Gutshot Straight Draw" -> "gutshot straight draw"
      [] s = "Combo Draw (Flush + Straight)" -> "combo draw (flush + straight)"
      [] s = "Fold" -> "fold"
      [] s = "Call" -> "call"
      [] s = "Raise" -> "raise"

\* a lower-case string as the sequence of its characters
Chars(s) ==
    CASE s = "" -> <<>>
      [] s = "high card" ->
           <<"h", "i", "g", "h", " ", "c", "a", "r", "d">>
      [] s = "one pair" ->
           <<"o", "n", "e", " ", "p", "a", "i", "r">>
      [] s = "two pair" ->
           <<"t", "w", "o", " ", "p", "a", "i", "r">>
      [] s = "three of a kind" ->
           <<"t", "h", "r", "e", "e", " ", "o", "f", " ", "a", " ", "k", "i", "n", "d">>
      [] s = "straight" ->
           <<"s", "t", "r", "a", "i", "g", "h", "t">>
      [] s = "flush" ->
           <<"f", "l", "u", "s", "h">>
      [] s = "full house" ->
           <<"f", "u", "l", "l", " ", "h", "o", "u", "s", "e">>
      [] s = "four of a kind" ->
           <<"f", "o", "u", "r", " ", "o", "f", " ", "a", " ", "k", "i", "n", "d">>
      [] s = "straight flush" ->
           <<"s", "t", "r", "a", "i", "g", "h", "t", " ", "f", "l", "u", "s", "h">>
      [] s = "none" ->
           <<"n", "o", "n", "e">>
      [] s = "flush draw" ->
           <<"f", "l", "u", "s", "h", " ", "d", "r", "a", "w">>
      [] s = "open-ended straight draw" ->
           <<"o", "p", "e", "n", "-", "e", "n", "d", "e", "d", " ", "s", "t", "r", "a", "i", "g", "h", "t", " ", "d", "r", "a", "w">>
      [] s = "gutshot straight draw" ->
           <<"g", "u", "t", "s", "h", "o", "t", " ", "s", "t", "r", "a", "i", "g", "h", "t", " ", "d", "r", "a", "w">>
      [] s = "combo draw (flush + straight)" ->
           <<"c", "o", "m", "b", "o", " ", "d", "r", "a", "w", " ", "(", "f", "l", "u", "s", "h", " ", "+", " ", "s", "t", "r", "a", "i", "g", "h", "t", ")">>
      [] s = "fold" ->
           <<"f", "o", "l", "d">>
      [] s = "call" ->
           <<"c", "a", "l", "l">>
      [] s = "raise" ->
           <<"r", "a", "i", "s", "e">>
      [] s = "pair" ->
           <<"p", "a", "i", "r">>
      [] s = "two" ->
           <<"t", "w", "o">>
      [] s = "open" ->
           <<"o", "p", "e", "n">>
      [] s = "gutshot" ->
           <<"g", "u", "t", "s", "h", "o", "t">>
      [] s = "gut" ->
           <<"g", "u", "t">>
      [] s = "combo" ->
           <<"c", "o", "m", "b", "o">>

\* s.trim().toLowerCase(); none of the strings has outer white space
normalize(s) == Chars(toLowerCase(s))

\* a.includes(b): b occurs in a as a run of consecutive characters
includes(a, b) == \E k \in 0..(Len(a) - Len(b)) : SubSeq(a, k + 1, k + Len(b)) = b


\* A selection that may be null (outs, potOdds, last) is <<>> for null and
\* <<v>> for the value v.

\* |x - y| <= k for rationals x, y and an integer k
RatWithin(x, y, k) == Abs(x.num * y.den - y.num * x.den) <= k * x.den * y.den

\* score(), as a function of what its closure c holds: the mode, the solution,
\* the selections and the streak of the render that created it.  The result
\* is the object score returns; its state updates are in onCheck below.
score(c) ==
    LET bh == normalize(c.bestHand)
        dt == normalize(c.drawType)
        bestSol == normalize(c.sol.bestHandLabel)
        drawSol == normalize(c.sol.drawLabel)
        bestOk ==
            /\ bh # <<>>
            /\ \/ bh = bestSol
               \/ includes(bh, bestSol)
               \/ includes(bestSol, bh)
               \/ /\ bestSol = Chars("one pair")
                  /\ includes(bh, Chars("pair"))
                  /\ ~includes(bh, Chars("two"))
        drawOk ==
            IF c.mode = "HAND" THEN TRUE
            ELSE IF drawSol = Chars("none")
                 THEN dt = <<>> \/ dt = Chars("none") \/ includes(dt, Chars("none"))
                 ELSE /\ dt # <<>>
                      /\ \/ includes(dt, drawSol)
                         \/ includes(drawSol, dt)
                         \/ includes(drawSol, Chars("flush")) /\ includes(dt, Chars("flush"))
                         \/ includes(drawSol, Chars("open")) /\ includes(dt, Chars("open"))
                         \/ includes(drawSol, Chars("gutshot")) /\ includes(dt, Chars("gut"))
                         \/ /\ includes(drawSol, Chars("combo"))
                            /\ \/ includes(dt, Chars("combo"))
                               \/ includes(dt, Chars("flush")) /\ includes(dt, Chars("straight"))
        outsOk ==
            IF c.mode = "HAND" THEN TRUE
            ELSE IF c.outs # <<>> THEN Abs(c.outs[1] - c.sol.outs) <= 1 ELSE FALSE
        potOddsOk ==
            IF c.mode # "DECISION" THEN TRUE
            ELSE IF c.potOdds # <<>> THEN RatWithin(c.potOdds[1], c.sol.potOddsPct, 2)
                 ELSE FALSE
        decisionOk ==
            IF c.mode # "DECISION" THEN TRUE
            ELSE normalize(c.decision) = normalize(c.sol.decision)
        gained0 ==
            (IF bestOk THEN 45 ELSE 0) + (IF drawOk THEN 15 ELSE 0)
            + (IF outsOk THEN 20 ELSE 0) + (IF potOddsOk THEN 10 ELSE 0)
            + (IF decisionOk THEN 10 ELSE 0)
        passed ==
            gained0 >= (IF c.mode = "HAND" THEN 40 ELSE IF c.mode = "OUTS" THEN 55 ELSE 70)
        gained == IF passed THEN gained0 + MinOf(20, (c.streak + 1) * 2) ELSE gained0
    IN  [gained |-> gained, passed |-> passed, bestOk |-> bestOk, drawOk |-> drawOk,
         outsOk |-> outsOk, potOddsOk |-> potOddsOk, decisionOk |-> decisionOk]

\* canCheck of the current render
canCheck(m, u) ==
    IF m = "HAND" THEN u.bestHand # ""
    ELSE IF m = "OUTS" THEN u.bestHand # "" /\ u.drawType # "" /\ u.outs # <<>>
    ELSE /\ u.bestHand # "" /\ u.drawType # "" /\ u.outs # <<>>
         /\ u.potOdds # <<>> /\ u.decision # ""

\* makeMCQNumbers(correct, deltas, min, max)
makeMCQNumbers(correct, deltas, min, max) ==
    LET inRange(n) == n >= min /\ n <= max
        opts == SelectSeq([k \in DOMAIN deltas |-> correct + deltas[k]], inRange)
    IN  SortNums(Dedup(<<correct>> \o opts))

\* outsChoices: the options of makeMCQNumbers, before their shuffle
outsChoices(m, sol) ==
    IF m = "HAND" THEN <<>>
    ELSE LET all == makeMCQNumbers(sol.outs, <<-2, -1, 1, 2, 4>>, 0, 20)
         IN  SubSeq(all, 1, MinOf(6, Len(all)))

\* makeMCQPotOdds(correctPct), before its shuffle.  Every value is a number
\* of halves: c is Math.round(correctPct * 2) / 2 and each delta a multiple
\* of 2.5, so the inner Math.round((c + d) * 2) meets an integer.
makeMCQPotOdds(correctPct) ==
    LET c2 == Round(Times(correctPct, 2))
        deltas2 == <<-20, -10, -5, 5, 10, 20>>
        inRange(v2) == v2 >= 0 /\ v2 <= 200
        opts == SelectSeq([k \in DOMAIN deltas2 |-> c2 + deltas2[k]], inRange)
        all == Dedup(<<c2>> \o opts)
        trimmed == IF Len(all) > 6 THEN <<c2>> \o SubSeq(opts, 1, 5) ELSE all
    IN  [k \in DOMAIN trimmed |-> Rat(trimmed[k], 2)]

potOddsChoices(m, sol) == IF m # "DECISION" THEN <<>> ELSE makeMCQPotOdds(sol.potOddsPct)


\* The component's state is st = [mode, spot, ui]; a handler is an operator
\* from the closure it runs in and st to the state after its set-calls.

\* what a render's closures hold of the state
Closure(st) ==
    [mode |-> st.mode, sol |-> st.spot.solution,
     showSolution |-> st.ui.showSolution,
     bestHand |-> st.ui.bestHand, drawType |-> st.ui.drawType,
     outs |-> st.ui.outs, potOdds |-> st.ui.potOdds, decision |-> st.ui.decision,
     streak |-> st.ui.streak]

resetInputs(u) ==
    [u EXCEPT !.bestHand = "", !.drawType = "", !.outs = <<>>,
              !.potOdds = <<>>, !.decision = ""]

\* onCheck whose score lower-cases the solution's labels in place
onCheck_NormalizesInPlace(c, st) ==
    IF c.showSolution THEN st
    ELSE LET res == score(c)
         IN  [st EXCEPT !.spot.solution.bestHandLabel = toLowerCase(@),
                        !.ui = [@ EXCEPT !.streak = IF res.passed THEN @ + 1 ELSE 0,
                                         !.xp = @ + res.gained,
                                         !.showSolution = TRUE,
                                         !.last = <<res>>]]

\* onCheck with score's set-calls: setStreak and setXp take updater
\* functions (the current value), the bonus inside gained the closure's streak
onCheck(c, st) ==
    IF c.showSolution THEN st
    ELSE LET res == score(c)
         IN  [st EXCEPT !.ui = [@ EXCEPT !.streak = IF res.passed THEN @ + 1 ELSE 0,
                                         !.xp = @ + res.gained,
                                         !.showSolution = TRUE,
                                         !.last = <<res>>]]

\* newSpot(nextMode = mode), generated being what genSpot(nextMode) returns
newSpot(c, st, generated) ==
    [st EXCEPT !.spot = generated,
               !.ui = [resetInputs(@) EXCEPT !.showSolution = FALSE,
                                             !.last = <<>>,
                                             !.round = @ + 1]]

\* switchMode(next), generated being what genSpot(next) returns
switchMode(next, st, generated) ==
    [st EXCEPT !.mode = next,
               !.spot = generated,
               !.ui = [resetInputs(@) EXCEPT !.round = 1,
                                             !.streak = 0,
                                             !.showSolution = FALSE,
                                             !.last = <<>>]]

\* a ref read through the listener's closure: the value of the render that
\* installed the listener
showSolutionRef_Stale(st) == st.ui.onKey.showSolution

\* showSolutionRef.current, assigned in every render: the showSolution of the
\* latest render, whatever closure reads it
showSolutionRef(st) == st.ui.showSolution

\* the effect with dependencies [mode, spot]: after a render in which either
\* has changed, the keydown listener is replaced by that render's onKey
effect(st) == [st EXCEPT !.ui.onKey = Closure(st)]

\* ------------------------------------------------- component specification

\* What genSpot's random source yields in the component: one of the first
\* NumUIDraws of these outcomes (the dealt cards and the two money indices).
UIDraws ==
    <<[hole |-> <<PlayingCard("8", "s"), PlayingCard("9", "h")>>,
       flop |-> <<PlayingCard("T", "s"), PlayingCard("J", "d"), PlayingCard("2", "c")>>,
       potIdx |-> 0, betIdx |-> 2],
      [hole |-> <<PlayingCard("2", "s"), PlayingCard("2", "h")>>,
       flop |-> <<PlayingCard("7", "d"), PlayingCard("9", "c"), PlayingCard("K", "s")>>,
       potIdx |-> 0, betIdx |-> 2],
      [hole |-> <<PlayingCard("A", "s"), PlayingCard("K", "s")>>,
       flop |-> <<PlayingCard("Q", "s"), PlayingCard("J", "s"), PlayingCard("2", "h")>>,
       potIdx |-> 2, betIdx |-> 2],
      [hole |-> <<PlayingCard("T", "s"), PlayingCard("J", "s")>>,
       flop |-> <<PlayingCard("Q", "s"), PlayingCard("K", "s"), PlayingCard("A", "s")>>,
       potIdx |-> 5, betIdx |-> 0],
      [hole |-> <<PlayingCard("5", "h"), PlayingCard("5", "d")>>,
       flop |-> <<PlayingCard("5", "c"), PlayingCard("9", "h"), PlayingCard("9", "s")>>,
       potIdx |-> 3, betIdx |-> 4]>>

NumUIDraws == 2
\* the user taps one of the first NumChoices options of a question (the
\* number options in the order they are built, before their shuffle)
NumChoices == 2
\* no further spot once round has reached MaxRound, no scoring once xp has
\* reached MaxXp
MaxRound == 2
MaxXp == 30

\* genSpot(m) on each of these outcomes, for every mode m
generatedSpots ==
    [m \in Modes |->
        {genSpot(m, UIDraws[g].hole, UIDraws[g].flop,
                 evalOnFlop(UIDraws[g].hole, UIDraws[g].flop),
                 UIDraws[g].potIdx, UIDraws[g].betIdx) :
            g \in 1..MinOf(NumUIDraws, Len(UIDraws))}]

Tapped(options) == {options[k] : k \in 1..MinOf(NumChoices, Len(options))}

State == [mode |-> mode, spot |-> spot, ui |-> ui]

Becomes(st) ==
    /\ mode' = st.mode /\ spot' = st.spot /\ ui' = st.ui
    /\ UNCHANGED <<pc, fnVars, evalVars, shuffleVars>>

\* the first render: useState's initial values, and the effect's first run
InitUI ==
    /\ pc = "component"
    /\ \E generated \in generatedSpots["DECISION"] :
          LET st == effect([mode |-> "DECISION", spot |-> generated,
                            ui |-> [showSolution |-> FALSE, bestHand |-> "",
                                    drawType |-> "", outs |-> <<>>, potOdds |-> <<>>,
                                    decision |-> "", xp |-> 0, streak |-> 0,
                                    round |-> 1, last |-> <<>>, onKey |-> <<>>]])
          IN  mode = st.mode /\ spot = st.spot /\ ui = st.ui
    /\ NoFn /\ NoEval /\ NoShuffle

\* the choice buttons, disabled while the solution is shown
SetBestHand ==
    /\ pc = "component" /\ ~ui.showSolution
    /\ \E h \in Tapped(HAND_OPTIONS) : Becomes([State EXCEPT !.ui.bestHand = h])

SetDrawType ==
    /\ pc = "component" /\ ~ui.showSolution /\ mode # "HAND"
    /\ \E d \in Tapped(DRAW_OPTIONS) : Becomes([State EXCEPT !.ui.drawType = d])

SetOuts ==
    /\ pc = "component" /\ ~ui.showSolution /\ mode # "HAND"
    /\ \E n \in Tapped(outsChoices(mode, spot.solution)) :
          Becomes([State EXCEPT !.ui.outs = <<n>>])

SetPotOdds ==
    /\ pc = "component" /\ ~ui.showSolution /\ mode = "DECISION"
    /\ \E p \in Tapped(potOddsChoices(mode, spot.solution)) :
          Becomes([State EXCEPT !.ui.potOdds = <<p>>])

SetDecision ==
    /\ pc = "component" /\ ~ui.showSolution /\ mode = "DECISION"
    /\ \E d \in Tapped(DECISION_OPTIONS) : Becomes([State EXCEPT !.ui.decision = d])

\* the Check button, disabled by showSolution || !canCheck
ClickCheck ==
    /\ pc = "component"
    /\ ~(ui.showSolution \/ ~canCheck(mode, ui))
    /\ ui.xp < MaxXp
    /\ Becomes(onCheck(Closure(State), State))

\* the Enter key while no solution is shown: the listener's onCheck
KeyEnterCheck ==
    /\ pc = "component"
    /\ ~showSolutionRef(State)
    /\ ui.xp < MaxXp
    /\ Becomes(onCheck(ui.onKey, State))

\* the Enter key while the solution is shown: the listener's newSpot
KeyEnterNewSpot ==
    /\ pc = "component"
    /\ showSolutionRef(State)
    /\ ui.round < MaxRound
    /\ \E generated \in generatedSpots[ui.onKey.mode] :
          Becomes(effect(newSpot(ui.onKey, State, generated)))

\* the New Spot and Next buttons
ClickNewSpot ==
    /\ pc = "component"
    /\ ui.round < MaxRound
    /\ \E generated \in generatedSpots[mode] :
          Becomes(effect(newSpot(Closure(State), State, generated)))

\* the three mode buttons
SwitchMode ==
    /\ pc = "component"
    /\ \E next \in Modes : \E generated \in generatedSpots[next] :
          Becomes(effect(switchMode(next, State, generated)))

NextUI ==
    \/ SetBestHand \/ SetDrawType \/ SetOuts \/ SetPotOdds \/ SetDecision
    \/ ClickCheck \/ KeyEnterCheck \/ KeyEnterNewSpot \/ ClickNewSpot \/ SwitchMode

SpecUI == InitUI /\ [][NextUI]_vars


\* ------------------------------------------------ the Spot under scoring

\* what onCheck leaves of the Spot, run from the present render's closure
\* (the Check button) and from the keydown listener's closure (Enter)
SpotAfterCheck == {onCheck(Closure(State), State).spot, onCheck(ui.onKey, State).spot}

\* C15: scoring never alters the Spot: a call of score()/onCheck leaves spot
\* (hole, flop, pot, betToCall, every solution field) unchanged; the spot
\* changes only through newSpot or switchMode, which replace it with a
\* freshly generated one.  As a state predicate: in every state of the
\* component onCheck would return the spot it found, and the spot held is
\* one genSpot returns for the mode, whatever has been scored since.
C15_ScoringKeepsSpot ==
    pc = "component" =>
        /\ SpotAfterCheck = {spot}
        /\ spot \in generatedSpots[mode]

\* a scored spot, still the Spot genSpot returned
C15_Witness ==
    /\ pc = "component"
    /\ ui.showSolution /\ Len(ui.last) = 1 /\ ui.xp > 0
    /\ spot \in generatedSpots[mode]


\* ------------------------------------------------ the straight-draw flags

\* the distinct rank values of the five cards, the Ace counted as -1 as well
HandVals == RankVals(Cards)

\* some four of the values are consecutive (span 3)
HasOpenEndedSubset == \E lo \in HandVals : \A d \in 0..3 : (lo + d) \in HandVals

\* some four of the values span 4 with exactly one value between them missing
HasGutshotSubset ==
    \E lo \in HandVals :
        /\ (lo + 4) \in HandVals
        /\ \E miss \in (lo + 1)..(lo + 3) : ((lo + 1)..(lo + 3)) \ {miss} \subseteq HandVals

\* C16: the oesd flag of straightDrawType is set exactly when some 4-element
\* subset of the distinct rank values, the Ace also counted as the low value
\* -1, consists of 4 consecutive values (span 3).
C16_OesdIffFourConsecutive ==
    pc = "evaluated" => (loc.oesd <=> HasOpenEndedSubset)

\* C17: the gutshot flag of straightDrawType is set exactly when some
\* 4-element subset of the distinct rank values, the Ace also counted as the
\* low value -1, has span 4 with exactly one interior value missing.
C17_GutshotIffOneGap ==
    pc = "evaluated" => (loc.gutshot <=> HasGutshotSubset)


\* ---------------------------------------------- the draw label's precedence

\* some suit occurs exactly 4 times among the five cards
HandIsFlushDraw == \E u \in HandSuits : NumOfSuit(u) = 4

\* the label the precedence gives, from the flush draw and the two flags
\* straightDrawType returns
LabelByPrecedence ==
    IF HandIsFlushDraw /\ loc.oesd THEN "Combo Draw (Flush + Straight)"
    ELSE IF HandIsFlushDraw THEN "Flush Draw"
    ELSE IF loc.oesd THEN "Open-Ended Straight Draw"
    ELSE IF loc.gutshot THEN "Gutshot Straight Draw"
    ELSE "None"

\* C18: when the five cards are neither a made flush nor a made straight,
\* the drawLabel follows the precedence Combo Draw (flush draw and oesd) >
\* Flush Draw > Open-Ended Straight Draw > Gutshot Straight Draw > None, a
\* flush draw being some suit that occurs exactly 4 times; a flush draw with
\* only a gutshot is labelled Flush Draw with 9 outs.
C18_DrawLabelPrecedence ==
    (pc = "evaluated" /\ ~HandIsFlush /\ ~HandIsStraight) =>
        /\ loc.isFlushDraw <=> HandIsFlushDraw
        /\ ev.drawLabel = LabelByPrecedence
        /\ (HandIsFlushDraw /\ loc.gutshot /\ ~loc.oesd) =>
              (ev.drawLabel = "Flush Draw" /\ ev.outs = 9)

\* four cards of a suit with a gutshot and no open-ended draw: Flush Draw, 9
C18_Witness ==
    /\ pc = "evaluated"
    /\ ~HandIsFlush /\ ~HandIsStraight
    /\ HandIsFlushDraw /\ loc.gutshot /\ ~loc.oesd
    /\ ev.drawLabel = "Flush Draw" /\ ev.outs = 9


\* ------------------------------------------------ the decision's rationale

SolutionIsStrong ==
    spot.solution.bestHandLabel \in
        {"Two Pair", "Three of a Kind", "Straight", "Flush", "Full House",
         "Four of a Kind", "Straight Flush"}

\* the sentence of decisionWhy and the two figures it quotes
Why == spot.solution.decisionWhy

\* C19: in every DECISION spot the rationale agrees with the branch
\* recommendDecision took: a Raise on a strong made hand names the strong
\* hand, a Raise on outs >= 15 names the draw, a Call states an equity figure
\* at least the price figure it quotes, a Fold an equity figure below it.
C19_RationaleMatchesBranch ==
    (pc = "genSpot:return" /\ mode = "DECISION") =>
        /\ (spot.solution.decision = "Raise" /\ SolutionIsStrong) =>
              Why.kind \in {"strong made hand", "strong hand + big draw"}
        /\ (spot.solution.decision = "Raise" /\ ~SolutionIsStrong) =>
              /\ spot.solution.outs >= 15
              /\ Why.kind = "massive draw"
              /\ Why.quotes[1] = spot.solution.outs
        /\ spot.solution.decision = "Call" =>
              /\ Why.kind = "equity beats the price"
              /\ Why.quotes[1] >= Why.quotes[2]
        /\ spot.solution.decision = "Fold" =>
              /\ Why.kind = "equity is below the price"
              /\ Why.quotes[1] < Why.quotes[2]


\* ------------------------------------------- improvement outs beside a draw

\* C20 as stated: improvementOuts is nonzero only if drawLabel is "None" (a
\* hand with a flush or straight draw reports improvementOuts = 0).
C20_ImprovementOnlyWithoutDraw ==
    pc = "evaluated" => (ev.improvementOuts # 0 => ev.drawLabel = "None")

\* C20, amended: the improvement-outs table applies whatever the draw:
\* improvementOuts is nonzero exactly when bestHandLabel is High Card, One
\* Pair, Two Pair, Three of a Kind or Full House, and a hand with a flush or
\* straight draw reports the improvementOuts of its bestHandLabel, 6 for
\* High Card or 5 for One Pair, never 0.
C20_ImprovementBesideDraw ==
    pc = "evaluated" =>
        /\ ev.improvementOuts # 0 <=>
              ev.bestHandLabel \in {"High Card", "One Pair", "Two Pair",
                                    "Three of a Kind", "Full House"}
        /\ ev.drawLabel # "None" =>
              \/ ev.bestHandLabel = "High Card" /\ ev.improvementOuts = 6
              \/ ev.bestHandLabel = "One Pair" /\ ev.improvementOuts = 5

\* a High Card hand with a flush draw: 9 draw outs and 6 improvement outs
C20_Witness ==
    /\ pc = "evaluated"
    /\ HandIsFlushDraw
    /\ ev.bestHandLabel = "High Card" /\ ev.drawLabel = "Flush Draw"
    /\ ev.outs = 9 /\ ev.improvementOuts = 6


\* ------------------------------------------- the Spot's reported decision

\* what the decision engine returns for the Spot's hand at a required
\* percentage of 0, the one genSpot computes in the modes without money
EngineAtZero ==
    recommendDecision(spot.solution.bestHandLabel, spot.solution.outs, Rat(0, 1))

\* C21: for modes HAND and OUTS genSpot reports the fixed decision "Call" and
\* required pot odds 0 whatever the cards are (the decision engine's result is
\* not used); for mode DECISION solution.decision equals
\* recommendDecision(bestHandLabel, outs, potOddsPct(pot, betToCall)).
C21_DecisionFollowsMode ==
    pc = "genSpot:return" =>
        /\ mode \in {"HAND", "OUTS"} =>
              /\ spot.solution.decision = "Call"
              /\ spot.solution.potOddsPct.num = 0
        /\ mode = "DECISION" =>
              spot.solution.decision =
                  recommendDecision(spot.solution.bestHandLabel, spot.solution.outs,
                                    potOddsPct(spot.pot, spot.betToCall))

\* a HAND spot reporting Call for cards on which the engine says Raise
C21_Witness ==
    /\ pc = "genSpot:return"
    /\ mode = "HAND"
    /\ EngineAtZero = "Raise"
    /\ spot.solution.decision = "Call"


\* ------------------------------------------------------------ score alone

\* The closures put to score(): every mode, every best-hand label as the
\* solution's, every best-hand and draw option as the selection (or none
\* yet), every draw label as the solution's; no number and no decision
\* selected, no streak.
InitScore ==
    /\ pc = "score"
    /\ \E m \in Modes : \E bestSol \in Range(HAND_OPTIONS) :
       \E drawSol \in Range(DRAW_OPTIONS) :
       \E bh \in {""} \cup Range(HAND_OPTIONS) : \E dt \in {""} \cup Range(DRAW_OPTIONS) :
          args = [mode |-> m,
                  sol |-> [bestHandLabel |-> bestSol, drawLabel |-> drawSol,
                           outs |-> 0, potOddsPct |-> Rat(0, 1), decision |-> "Call"],
                  showSolution |-> FALSE,
                  bestHand |-> bh, drawType |-> dt, outs |-> <<>>, potOdds |-> <<>>,
                  decision |-> "", streak |-> 0]
    /\ ret = None
    /\ NoEval /\ NoShuffle /\ NoSpot

Score ==
    /\ pc = "score"
    /\ ret' = score(args)
    /\ pc' = "score:return"
    /\ UNCHANGED <<args, evalVars, shuffleVars, spotVars>>

NextScore == Score

SpecScore == InitScore /\ [][NextScore]_vars

\* C25: over the closed set of nine best-hand option labels, score() grades
\* the best-hand answer as correct (bestOk) exactly when the selected label
\* equals solution.bestHandLabel; no selected label different from the
\* solution's is accepted.
C25_BestOkIffSameLabel ==
    (pc = "score:return" /\ args.bestHand # "") =>
        (ret.bestOk <=> args.bestHand = args.sol.bestHandLabel)


\* ------------------------------------------------- one scoring per spot

\* a step that runs onCheck: the Check button, or Enter with no solution shown
ScoreStep == ClickCheck \/ KeyEnterCheck

\* the spot has been scored since it was generated: onCheck stores the result
\* in last, newSpot and switchMode clear it
Scored == Len(ui.last) = 1

\* C22: each generated spot is scored at most once: after a check has shown
\* the solution, any further Check click or Enter key press does not call
\* score() again, so xp and streak change at most once between two
\* consecutive spot generations, under any interleaving of clicks and key
\* presses.  As a state predicate: once the spot is scored the solution is
\* shown, no step that scores is possible, and onCheck run from the present
\* render returns without a change.
C22_ScoredAtMostOnce ==
    (pc = "component" /\ Scored) =>
        /\ ui.showSolution
        /\ ~ENABLED ScoreStep
        /\ onCheck(Closure(State), State) = State

\* a spot scored through the Enter key, in its second round, xp still under
\* the bound
C22_Witness ==
    /\ pc = "component"
    /\ Scored /\ ui.showSolution
    /\ ui.round = 2 /\ ui.xp < MaxXp
    /\ ui.bestHand = "" /\ ui.onKey.showSolution = FALSE


\* ----------------------------------------------- scoring and canCheck

\* C23: a spot is scored only when every answer the current mode requires has
\* been selected (canCheck): best hand in HAND mode; best hand, draw type and
\* outs in OUTS mode; those plus pot odds and decision in DECISION mode; for
\* both ways of triggering a check, the Check button and the Enter key.  The
\* selections cannot change while the solution is shown, so those of a
\* scored spot are those it was scored with.
C23_ScoredOnlyWhenComplete ==
    (pc = "component" /\ Scored) => canCheck(mode, ui)


\* ------------------------------------------------- passing in HAND mode

\* the result of the scoring of the present spot
Last == ui.last[1]

\* C24: in Hand Recognition mode (HAND), score() reports passed = true, and
\* therefore increments the streak and awards the streak bonus, only if the
\* selected best hand is graded correct (bestOk); a wrong best-hand answer
\* resets the streak to 0.
C24_HandPassNeedsBestOk ==
    (pc = "component" /\ mode = "HAND" /\ Scored) =>
        /\ Last.passed => Last.bestOk
        /\ ~Last.bestOk => ui.streak = 0

====
